---- MODULE Spec2Model ----
(***************************************************************************)
(* Time-to-revenue pipeline of Freelancer-Hub-BE: the timer service, the   *)
(* time-entry ledger, the invoice number allocator, the invoice generator  *)
(* and the invoice status updates, as state machines over the persistent   *)
(* store. An await of a handler is one atomic step, so that concurrent     *)
(* requests interleave where the code yields; a lookup and the write after *)
(* it are one step where the write does not depend on what was read.       *)
(***************************************************************************)
EXTENDS Integers, Sequences, FiniteSets, TLC

(***************************************************************************)
(* Bounds of the model.                                                    *)
(***************************************************************************)
MaxTime == 1000          \* the wall clock (ms) stays within 0..MaxTime
MaxEntries == 2          \* rows of the TimeEntry table

(***************************************************************************)
(* Fixed reference data: users, projects and tasks (rows the excluded CRUD *)
(* layer created).                                                         *)
(***************************************************************************)
Users == {"u1", "u2"}
Workers == {"u1"}                     \* the workers whose sessions call the timer endpoints
Tasks == {"t1", "t2", "t3", "t4"}
TaskIds == {"t1", "t3", "tX"}         \* ids a start request names; "tX": the uuid of no task

taskProject(t) == IF t = "t3" THEN "p2" ELSE "p1"
projectOwner(p) == IF p = "p1" THEN "u1" ELSE "u2"
taskTitle(t) == IF t = "t3" THEN "Review" ELSE IF t = "t4" THEN "Logo" ELSE "Homepage"
Clients == {"c1", "c2"}
projectClient(p) == IF p = "p1" THEN "c1" ELSE "c2"

Null == 0 - 1                          \* endTime: null

\* HTTP status codes the handlers answer with; 0: no response yet
NoResponse == 0
Ok == 200
InvalidState == 400
NotFound == 404
Conflict == 409

VARIABLES
  now,          \* what new Date().getTime() returns, in ms
  timeEntries,  \* the TimeEntry table: a sequence of rows, id = index
  timer,        \* per request slot: the position of a startTimer/stopTimer call
  response,     \* status code of the response sent last
  year,         \* what new Date().getFullYear() returns
  invoices,     \* the committed Invoice table with its InvoiceItem rows, id = index
  gen,          \* per request slot: the position of a generateFromProject transaction
  consumed,     \* history: the numbers generateInvoiceNumber has returned to generate calls
  numberUnique, \* whether the store enforces uniqueness of Invoice.number
  handler,      \* history: the handler that sent the response last
  edit,         \* per request slot: the position of an updateTimeEntry/deleteTimeEntry call
  deletedAt,    \* the ids of the tasks and projects whose deletedAt is set
  remove        \* per request slot: the position of a deleteTask/deleteProject call

invVars == <<year, invoices, gen, consumed, numberUnique>>
crudVars == <<deletedAt, remove>>
vars == <<now, timeEntries, timer, response, year, invoices, gen, consumed, numberUnique,
          handler, edit, deletedAt, remove>>

TimerProcs == {"r1", "r2"}
TimerSteps == {500, 1000}

IdleCall == [pc |-> "idle", userId |-> "u1", taskId |-> "t1", entry |-> 0, start |-> 0]

(***************************************************************************)
(* Pure helpers                                                            *)
(***************************************************************************)
\* Math.floor(ms / 1000)
FloorSeconds(ms) == ms \div 1000
\* Math.round(ms / 1000): half rounds towards +infinity
RoundSeconds(ms) == (ms + 500) \div 1000

\* prisma.timeEntry.findFirst / findMany ({ where: { userId, endTime: null } })
ActiveTimers(u) ==
  {i \in 1..Len(timeEntries) :
     timeEntries[i].userId = u /\ timeEntries[i].endTime = Null}

\* prisma.task.findFirst({ where: { id, project: { ownerId: userId } } })
TaskOfOwner(t, u) == t \in Tasks /\ projectOwner(taskProject(t)) = u

\* the duration stopTimer computes from the clock and the entry's start
StopDuration(endTime, startTime) == FloorSeconds(endTime - startTime)

\* the call of slot p ends with a response
Respond(p, code) ==
  /\ timer' = [timer EXCEPT ![p] = IdleCall]
  /\ response' = code

(***************************************************************************)
(* The wall clock                                                          *)
(***************************************************************************)
Tick ==
  /\ \E d \in TimerSteps : now + d <= MaxTime /\ now' = now + d
  /\ UNCHANGED <<crudVars, timeEntries, timer, response, handler, invVars, edit>>

\* the system time is set back (NTP step, manual change)
ClockBack ==
  /\ now >= 1000
  /\ now' = now - 1000
  /\ UNCHANGED <<crudVars, timeEntries, timer, response, handler, invVars, edit>>

(***************************************************************************)
(* TimerService.startTimer: three awaits, three steps                      *)
(***************************************************************************)
\* a start check that never sees the running entry
StartNeverRejects(u) == FALSE

\* if (activeTimer) throw new CustomError(..., 409)
StartRejectsActive(u) == ActiveTimers(u) # {}

startTimer_findActive(p, u, t) ==
  /\ timer[p].pc = "idle"
  /\ IF StartRejectsActive(u)
       THEN Respond(p, Conflict) /\ handler' = "startTimer"
       ELSE /\ timer' = [timer EXCEPT ![p] =
                          [IdleCall EXCEPT !.pc = "findTask", !.userId = u, !.taskId = t]]
            /\ UNCHANGED <<response, handler>>
  /\ UNCHANGED <<crudVars, now, timeEntries, invVars, edit>>

\* a task lookup that finds every id
startTimer_findAnyTask(p) ==
  /\ timer[p].pc = "findTask"
  /\ timer' = [timer EXCEPT ![p].pc = "create"]
  /\ UNCHANGED <<crudVars, now, timeEntries, response, handler, invVars, edit>>

startTimer_findTask(p) ==
  /\ timer[p].pc = "findTask"
  /\ IF TaskOfOwner(timer[p].taskId, timer[p].userId)
       THEN timer' = [timer EXCEPT ![p].pc = "create"] /\ UNCHANGED <<response, handler>>
       ELSE Respond(p, NotFound) /\ handler' = "startTimer"
  /\ UNCHANGED <<crudVars, now, timeEntries, invVars, edit>>

NewTimer(u, t) ==
  [userId |-> u, taskId |-> t, startTime |-> now, endTime |-> Null,
   duration |-> 0, billable |-> TRUE, approved |-> FALSE, deleted |-> FALSE]

startTimer_create(p) ==
  /\ timer[p].pc = "create"
  /\ Len(timeEntries) < MaxEntries
  /\ timeEntries' = Append(timeEntries, NewTimer(timer[p].userId, timer[p].taskId))
  /\ Respond(p, Ok) /\ handler' = "startTimer"
  /\ UNCHANGED <<crudVars, now, invVars, edit>>

(***************************************************************************)
(* TimerService.stopTimer: two awaits, two steps                           *)
(***************************************************************************)
\* a stop that answers 200 when it finds no running entry
stopTimer_missingIsOk(p, u) ==
  /\ timer[p].pc = "idle"
  /\ Respond(p, Ok) /\ handler' = "stopTimer"
  /\ UNCHANGED <<crudVars, now, timeEntries, invVars, edit>>

stopTimer_findActive(p, u) ==
  /\ timer[p].pc = "idle"
  /\ IF ActiveTimers(u) = {}
       THEN Respond(p, NotFound) /\ handler' = "stopTimer"
       ELSE /\ \E i \in ActiveTimers(u) :
                 timer' = [timer EXCEPT ![p] =
                             [IdleCall EXCEPT !.pc = "update", !.userId = u, !.entry = i,
                                              !.start = timeEntries[i].startTime]]
            /\ UNCHANGED <<response, handler>>
  /\ UNCHANGED <<crudVars, now, timeEntries, invVars, edit>>

stopTimer_update(p) ==
  /\ timer[p].pc = "update"
  /\ timeEntries' = [timeEntries EXCEPT
                       ![timer[p].entry].endTime = now,
                       ![timer[p].entry].duration = StopDuration(now, timer[p].start)]
  /\ Respond(p, Ok) /\ handler' = "stopTimer"
  /\ UNCHANGED <<crudVars, now, invVars, edit>>

(***************************************************************************)
(* Money and quantities. Prisma.Decimal values are kept exact: an amount   *)
(* is an integer number of units of 1/240 cent, the grain that hours       *)
(* (minutes / 60) times a rate in cents times the tax factor 0.25 needs; a *)
(* quantity is an integer number of sixtieths (quantity * 60).             *)
(***************************************************************************)
Cent == 240
MaxInvoices == 2         \* rows of the Invoice table

PadWidth == 4
DefaultRateCents == 5000
Created == 201
ServerError == 500

InvoiceStatus == {"DRAFT", "SENT", "PAID", "OVERDUE"}
GenProcs == {"g1", "g2"}
\* the dueDate (ms) the bodies of the generate and create requests carry
DueDate == 500
Years == {2025, 2026}
NoProject == "none"

\* user.hourlyRate in cents; 0 stands for null
hourlyRateCents(u) == IF u = "u1" THEN 5000 ELSE 0
\* project.owner.hourlyRate || new Prisma.Decimal(50)
OwnerRate(u) == IF hourlyRateCents(u) = 0 THEN DefaultRateCents ELSE hourlyRateCents(u)

\* the Expense table (read-only here): one billable expense of project p1
Expenses ==
  << [projectId |-> "p1", userId |-> "u1", amountCents |-> 4000, billable |-> TRUE,
      date |-> 20000000, deleted |-> FALSE] >>

\* [startDate, endDate] of a generate request, startDate < endDate
Ranges == {<<0, 18000000>>, <<0, 30000000>>, <<40000000, 50000000>>}

\* (startTime, endTime) of a manual time entry request
EntrySpans == {<<0, 7200000>>, <<7200000, 18000000>>, <<1000, 1000>>}

IdleGen == [pc |-> "idle", userId |-> "u1", projectId |-> "p1", items |-> <<>>,
            number |-> [year |-> 0, seq |-> <<>>], tx |-> <<>>]

\* the call of generate slot p ends with a response
RespondGen(p, code) ==
  /\ gen' = [gen EXCEPT ![p] = IdleGen]
  /\ response' = code
  /\ handler' = "generateFromProject"

(***************************************************************************)
(* Invoice numbers: "<year>-<seq>", seq a string of decimal digits         *)
(***************************************************************************)
RECURSIVE ParseInt(_)
\* parseInt(digits, 10)
ParseInt(ds) ==
  IF ds = <<>> THEN 0
  ELSE ParseInt(SubSeq(ds, 1, Len(ds) - 1)) * 10 + ds[Len(ds)]

RECURSIVE ToDigits(_)
\* n.toString()
ToDigits(n) == IF n < 10 THEN <<n>> ELSE Append(ToDigits(n \div 10), n % 10)

RECURSIVE PadStart(_, _)
\* s.padStart(w, '0')
PadStart(ds, w) == IF Len(ds) >= w THEN ds ELSE PadStart(<<0>> \o ds, w)

RECURSIVE StringLess(_, _)
\* a < b in the store's string order
StringLess(a, b) ==
  IF a = <<>> THEN b # <<>>
  ELSE IF b = <<>> THEN FALSE
  ELSE IF a[1] # b[1] THEN a[1] < b[1]
  ELSE StringLess(Tail(a), Tail(b))

\* where: { number: { startsWith: yearPrefix + '-' } }
YearSeqs(y) ==
  {invoices[i].number.seq : i \in {j \in 1..Len(invoices) : invoices[j].number.year = y}}

\* orderBy: { number: 'desc' }, first row
LastSeq(y) ==
  CHOOSE s \in YearSeqs(y) : \A s2 \in YearSeqs(y) : s2 = s \/ StringLess(s2, s)

\* InvoiceService.generateInvoiceNumber, on the committed rows
generateInvoiceNumber ==
  IF YearSeqs(year) = {}
    THEN [year |-> year, seq |-> PadStart(ToDigits(1), PadWidth)]
    ELSE [year |-> year,
          seq |-> PadStart(ToDigits(ParseInt(LastSeq(year)) + 1), PadWidth)]

NumberTaken(n) == \E i \in 1..Len(invoices) : invoices[i].number = n

(***************************************************************************)
(* Aggregation of generateFromProject                                      *)
(***************************************************************************)
\* a selection that does not look at the approved flag
EligibleEntriesAnyApproval(u, proj, range) ==
  {i \in 1..Len(timeEntries) :
     /\ timeEntries[i].userId = u
     /\ timeEntries[i].billable
     /\ ~timeEntries[i].deleted
     /\ timeEntries[i].startTime >= range[1]
     /\ timeEntries[i].startTime <= range[2]
     /\ timeEntries[i].taskId \in Tasks
     /\ timeEntries[i].taskId \notin deletedAt
     /\ taskProject(timeEntries[i].taskId) = proj}

\* tx.timeEntry.findMany of generateFromProject
EligibleEntries(u, proj, range) ==
  {i \in 1..Len(timeEntries) :
     /\ timeEntries[i].userId = u
     /\ timeEntries[i].billable
     /\ timeEntries[i].approved
     /\ ~timeEntries[i].deleted
     /\ timeEntries[i].startTime >= range[1]
     /\ timeEntries[i].startTime <= range[2]
     /\ timeEntries[i].taskId \in Tasks
     /\ timeEntries[i].taskId \notin deletedAt
     /\ taskProject(timeEntries[i].taskId) = proj}

\* tx.expense.findMany of generateFromProject
EligibleExpenses(u, proj, range) ==
  {i \in 1..Len(Expenses) :
     /\ Expenses[i].projectId = proj
     /\ Expenses[i].userId = u
     /\ Expenses[i].billable
     /\ ~Expenses[i].deleted
     /\ Expenses[i].date >= range[1]
     /\ Expenses[i].date <= range[2]}

RECURSIVE SumDuration(_)
\* acc[taskTitle].totalMinutes += entry.duration
SumDuration(S) ==
  IF S = {} THEN 0
  ELSE LET i == CHOOSE x \in S : TRUE
       IN timeEntries[i].duration + SumDuration(S \ {i})

RECURSIVE SeqOfSet(_)
SeqOfSet(S) ==
  IF S = {} THEN <<>>
  ELSE LET x == CHOOSE y \in S : TRUE IN <<x>> \o SeqOfSet(S \ {x})

\* the key timeEntries.reduce groups by
GroupKey(i) == taskTitle(timeEntries[i].taskId)

\* hours = totalMinutes / 60, as sixtieths of the quantity
HoursOf(totalMinutes) == totalMinutes

\* one line per group: quantity hours, amount = hours * hourlyRate; seconds and
\* entries record what the line was computed from
TimeItem(key, S, rateCents) ==
  [description |-> key,
   qty60 |-> HoursOf(SumDuration(S)),
   rate |-> rateCents * Cent,
   amount |-> HoursOf(SumDuration(S)) * rateCents * (Cent \div 60),
   seconds |-> SumDuration(S), entries |-> S]

TimeItems(E, rateCents) ==
  LET keys == {GroupKey(i) : i \in E}
      line(k) == TimeItem(k, {i \in E : GroupKey(i) = k}, rateCents)
  IN [n \in 1..Cardinality(keys) |-> line(SeqOfSet(keys)[n])]

\* one line per expense: quantity 1, rate = amount = expense.amount
ExpenseItems(X) ==
  [n \in 1..Cardinality(X) |->
     [description |-> "expense", qty60 |-> 60,
      rate |-> Expenses[SeqOfSet(X)[n]].amountCents * Cent,
      amount |-> Expenses[SeqOfSet(X)[n]].amountCents * Cent,
      seconds |-> 0, entries |-> {}]]

RECURSIVE SumAmounts(_)
\* subtotal = subtotal.add(amount), over the lines
SumAmounts(items) ==
  IF items = <<>> THEN 0 ELSE items[1].amount + SumAmounts(Tail(items))

\* tax = subtotal.mul(0.25)
TaxOf(subtotal) == subtotal \div 4

\* the invoice row generateFromProject has written when its transaction commits
GeneratedInvoice(g) ==
  LET subtotal == SumAmounts(g.items)
  IN [number |-> g.number, userId |-> g.userId, projectId |-> g.projectId,
      clientId |-> projectClient(g.projectId),
      status |-> "DRAFT", subtotal |-> subtotal, tax |-> TaxOf(subtotal),
      total |-> subtotal + TaxOf(subtotal), items |-> g.items, origin |-> "generate",
      dueDate |-> DueDate]

(***************************************************************************)
(* InvoiceService.generateFromProject: one transaction, steps at its       *)
(* awaits. The reads run in the transaction; generateInvoiceNumber runs on *)
(* the global client and sees committed rows only; the rows the            *)
(* transaction writes become visible at its commit.                        *)
(***************************************************************************)
\* a selection that goes on to the number and the writes with nothing to invoice
generateFromProject_selectAny(p, u, proj, range) ==
  /\ gen[p].pc = "idle"
  /\ IF projectOwner(proj) # u \/ proj \in deletedAt
       THEN RespondGen(p, NotFound)
       ELSE /\ gen' = [gen EXCEPT ![p] =
                 [IdleGen EXCEPT
                    !.pc = "allocate", !.userId = u, !.projectId = proj,
                    !.items = TimeItems(EligibleEntries(u, proj, range), OwnerRate(u))
                                \o ExpenseItems(EligibleExpenses(u, proj, range))]]
            /\ UNCHANGED <<response, handler>>
  /\ UNCHANGED <<crudVars, now, timeEntries, timer, year, invoices, consumed, numberUnique, edit>>

generateFromProject_select(p, u, proj, range) ==
  /\ gen[p].pc = "idle"
  /\ IF projectOwner(proj) # u \/ proj \in deletedAt
       THEN RespondGen(p, NotFound)
       ELSE IF EligibleEntries(u, proj, range) = {} /\ EligibleExpenses(u, proj, range) = {}
         THEN RespondGen(p, InvalidState)
         ELSE /\ gen' = [gen EXCEPT ![p] =
                   [IdleGen EXCEPT
                      !.pc = "allocate", !.userId = u, !.projectId = proj,
                      !.items = TimeItems(EligibleEntries(u, proj, range), OwnerRate(u))
                                  \o ExpenseItems(EligibleExpenses(u, proj, range))]]
              /\ UNCHANGED <<response, handler>>
  /\ UNCHANGED <<crudVars, now, timeEntries, timer, year, invoices, consumed, numberUnique, edit>>

generateFromProject_allocate(p) ==
  /\ gen[p].pc = "allocate"
  /\ gen' = [gen EXCEPT ![p].pc = "write", ![p].number = generateInvoiceNumber]
  /\ consumed' = consumed \cup {generateInvoiceNumber}
  /\ UNCHANGED <<crudVars, now, timeEntries, timer, response, handler, year, invoices, numberUnique, edit>>

\* tx.invoice.create: the row with the zero placeholders, in the transaction only
PlaceholderInvoice(g) ==
  [number |-> g.number, userId |-> g.userId, projectId |-> g.projectId,
   clientId |-> projectClient(g.projectId),
   status |-> "DRAFT", subtotal |-> 0, tax |-> 0, total |-> 0, items |-> <<>>,
   origin |-> "generate", dueDate |-> DueDate]

\* the slot holds the number it obtained and is writing in its transaction
InTransactionWrites(p) == gen[p].pc \in {"write", "items", "totals"}

\* an invoice.create that writes to the store outside the transaction
generateFromProject_createInvoiceVisible(p) ==
  /\ gen[p].pc = "write"
  /\ Len(invoices) < MaxInvoices
  /\ gen' = [gen EXCEPT ![p].pc = "items", ![p].tx = <<PlaceholderInvoice(gen[p])>>]
  /\ invoices' = Append(invoices, PlaceholderInvoice(gen[p]))
  /\ UNCHANGED <<crudVars, now, timeEntries, timer, response, handler, year, consumed,
                 numberUnique, edit>>

generateFromProject_createInvoice(p) ==
  /\ gen[p].pc = "write"
  /\ gen' = [gen EXCEPT ![p].pc = "items", ![p].tx = <<PlaceholderInvoice(gen[p])>>]
  /\ UNCHANGED <<crudVars, now, timeEntries, timer, response, handler, year, invoices, consumed,
                 numberUnique, edit>>

\* tx.invoiceItem.createMany
generateFromProject_createItems(p) ==
  /\ gen[p].pc = "items"
  /\ gen' = [gen EXCEPT ![p].pc = "totals", ![p].tx[1].items = gen[p].items]
  /\ UNCHANGED <<crudVars, now, timeEntries, timer, response, handler, year, invoices, consumed,
                 numberUnique, edit>>

\* tx.invoice.update with the totals, and the commit: the rows become visible
generateFromProject_commit(p) ==
  /\ gen[p].pc = "totals"
  /\ Len(invoices) < MaxInvoices
  /\ IF numberUnique /\ NumberTaken(gen[p].number)
       THEN /\ RespondGen(p, InvalidState)         \* P2002, mapped to 400
            /\ UNCHANGED invoices
       ELSE /\ invoices' = Append(invoices,
                 [gen[p].tx[1] EXCEPT
                    !.subtotal = GeneratedInvoice(gen[p]).subtotal,
                    !.tax = GeneratedInvoice(gen[p]).tax,
                    !.total = GeneratedInvoice(gen[p]).total])
            /\ RespondGen(p, Created)
  /\ UNCHANGED <<crudVars, now, timeEntries, timer, year, consumed, numberUnique, edit>>

\* the transaction fails after the number was obtained (store error, timeout):
\* its writes are rolled back
generateFromProject_abort(p) ==
  /\ InTransactionWrites(p)
  /\ RespondGen(p, ServerError)
  /\ UNCHANGED <<crudVars, now, timeEntries, timer, year, invoices, consumed, numberUnique, edit>>

(***************************************************************************)
(* createInvoice / InvoiceService.createManualInvoice                      *)
(***************************************************************************)
\* the request bodies of the manual path: amounts in cents, one item; Null: the
\* field is not sent, taxRate 0 and discount 0: not sent or 0
ManualBodies ==
  {[subtotal |-> 10000, tax |-> 2500, total |-> 12500, taxRate |-> 0, discount |-> 0,
    quantity |-> 1, rate |-> 10000],
   [subtotal |-> 10000, tax |-> 0, total |-> 500, taxRate |-> 0, discount |-> 0,
    quantity |-> 1, rate |-> 10000],
   [subtotal |-> 10000, tax |-> 2500, total |-> Null, taxRate |-> 25, discount |-> 1000,
    quantity |-> 1, rate |-> 10000]}

\* createInvoiceSchema: subtotal, tax and total are required numbers >= 0
BodyValid(body) == body.subtotal # Null /\ body.tax # Null /\ body.total # Null

ManualNumbers == {[year |-> 2025, seq |-> <<0, 0, 0, 3>>], [year |-> 2025, seq |-> <<9>>]}

ManualItems(body) ==
  << [description |-> "manual", qty60 |-> body.quantity * 60, rate |-> body.rate * Cent,
      amount |-> body.quantity * body.rate * Cent, seconds |-> 0, entries |-> {}] >>

\* data.subtotal ?? sum(quantity * rate)
ManualSubtotal(body) ==
  IF body.subtotal # Null THEN body.subtotal * Cent ELSE SumAmounts(ManualItems(body))
\* data.taxAmount ?? (data.taxRate ? subtotal * taxRate / 100 : 0)
ManualTax(body) ==
  IF body.tax # Null THEN body.tax * Cent
  ELSE IF body.taxRate # 0 THEN (ManualSubtotal(body) * body.taxRate) \div 100
  ELSE 0
\* data.total ?? (subtotal + taxAmount - discount)
ManualTotal(body) ==
  IF body.total # Null THEN body.total * Cent
  ELSE ManualSubtotal(body) + ManualTax(body) - body.discount * Cent

createInvoice(u, number, proj, status, body) ==
  /\ Len(invoices) < MaxInvoices
  /\ IF ~BodyValid(body) \/ (numberUnique /\ NumberTaken(number))
       THEN /\ response' = InvalidState /\ handler' = "createInvoice"
            /\ UNCHANGED invoices
       ELSE /\ invoices' = Append(invoices,
                 [number |-> number, userId |-> u, projectId |-> proj,
                  clientId |-> "c1", status |-> status,
                  subtotal |-> ManualSubtotal(body), tax |-> ManualTax(body),
                  total |-> ManualTotal(body), items |-> ManualItems(body),
                  origin |-> "manual", dueDate |-> DueDate])
            /\ response' = Created /\ handler' = "createInvoice"
  /\ UNCHANGED <<crudVars, now, timeEntries, timer, year, gen, consumed, numberUnique, edit>>

(***************************************************************************)
(* InvoiceService.updateInvoiceStatus                                      *)
(***************************************************************************)
\* getInvoiceById's where clause
InvoiceVisibleTo(u, i) ==
  /\ i \in 1..Len(invoices)
  /\ \/ invoices[i].projectId = NoProject
     \/ /\ projectOwner(invoices[i].projectId) = u
        /\ invoices[i].projectId \notin deletedAt

updateInvoiceStatus(u, i, status) ==
  /\ IF ~InvoiceVisibleTo(u, i)
       THEN /\ response' = NotFound /\ handler' = "updateInvoiceStatus"
            /\ UNCHANGED invoices
       ELSE /\ invoices' = [invoices EXCEPT ![i].status = status]
            /\ response' = Ok /\ handler' = "updateInvoiceStatus"
  /\ UNCHANGED <<crudVars, now, timeEntries, timer, year, gen, consumed, numberUnique, edit>>

(***************************************************************************)
(* The read paths: GET /invoices/:id and GET /invoices                     *)
(***************************************************************************)
\* getInvoice: InvoiceService.getInvoiceById, 404 when it returns null
getInvoice(u, i) ==
  /\ response' = IF InvoiceVisibleTo(u, i) THEN Ok ELSE NotFound
  /\ handler' = "getInvoice"
  /\ UNCHANGED <<crudVars, now, timeEntries, timer, invVars, edit>>

\* getInvoices: findMany and count of the caller's invoices
getInvoices(u) ==
  /\ response' = Ok
  /\ handler' = "getInvoices"
  /\ UNCHANGED <<crudVars, now, timeEntries, timer, invVars, edit>>

(***************************************************************************)
(* markInvoiceAsPaid of the client portal. The write does not depend on    *)
(* what the lookup read, so the lookup and the write are one step.         *)
(***************************************************************************)
\* prisma.invoice.findFirst({ where: { id, clientId, deletedAt: null } })
InvoiceOfClient(c, i) == i \in 1..Len(invoices) /\ invoices[i].clientId = c

markInvoiceAsPaid(c, i) ==
  /\ IF ~InvoiceOfClient(c, i)
       THEN /\ response' = NotFound
            /\ UNCHANGED invoices
       ELSE IF invoices[i].status = "PAID"
         THEN /\ response' = InvalidState
              /\ UNCHANGED invoices
         ELSE /\ invoices' = [invoices EXCEPT ![i].status = "PAID"]
              /\ response' = Ok
  /\ handler' = "markInvoiceAsPaid"
  /\ UNCHANGED <<crudVars, now, timeEntries, timer, year, gen, consumed, numberUnique, edit>>

(***************************************************************************)
(* The time-entry ledger: manual creation, and approval by a reviewer      *)
(***************************************************************************)
\* prisma.task.findFirst of createTimeEntry
TaskOpenFor(t, u) ==
  /\ t \in Tasks /\ t \notin deletedAt
  /\ projectOwner(taskProject(t)) = u /\ taskProject(t) \notin deletedAt

\* a manual creation that applies the timer's singleton check
createTimeEntry_singleton(u, t, span, billable) ==
  /\ Len(timeEntries) < MaxEntries
  /\ IF \/ ActiveTimers(u) # {}
        \/ span[2] <= span[1]
        \/ ~TaskOpenFor(t, u)
        \/ RoundSeconds(span[2] - span[1]) <= 0
       THEN /\ response' = Conflict
            /\ UNCHANGED timeEntries
       ELSE /\ timeEntries' = Append(timeEntries,
                 [userId |-> u, taskId |-> t, startTime |-> span[1],
                  endTime |-> span[2], duration |-> RoundSeconds(span[2] - span[1]),
                  billable |-> billable, approved |-> FALSE, deleted |-> FALSE])
            /\ response' = Created
  /\ handler' = "createTimeEntry"
  /\ UNCHANGED <<crudVars, now, timer, invVars, edit>>

createTimeEntry(u, t, span, billable) ==
  /\ Len(timeEntries) < MaxEntries
  /\ IF span[2] <= span[1]
       THEN /\ response' = InvalidState /\ handler' = "createTimeEntry"             \* zod refine: end after start
            /\ UNCHANGED timeEntries
       ELSE IF ~TaskOpenFor(t, u)
         THEN /\ response' = NotFound /\ handler' = "createTimeEntry"
              /\ UNCHANGED timeEntries
         ELSE IF RoundSeconds(span[2] - span[1]) <= 0
           THEN /\ response' = InvalidState /\ handler' = "createTimeEntry"
                /\ UNCHANGED timeEntries
           ELSE /\ timeEntries' = Append(timeEntries,
                     [userId |-> u, taskId |-> t, startTime |-> span[1],
                      endTime |-> span[2], duration |-> RoundSeconds(span[2] - span[1]),
                      billable |-> billable, approved |-> FALSE, deleted |-> FALSE])
                /\ response' = Created /\ handler' = "createTimeEntry"
  /\ UNCHANGED <<crudVars, now, timer, invVars, edit>>

\* the approved flag is set on the row directly; no handler of the API writes it
approveEntry(i) ==
  /\ i \in 1..Len(timeEntries)
  /\ timeEntries[i].endTime # Null
  /\ ~timeEntries[i].approved
  /\ timeEntries' = [timeEntries EXCEPT ![i].approved = TRUE]
  /\ UNCHANGED <<crudVars, now, timer, response, handler, invVars, edit>>

(***************************************************************************)
(* updateTimeEntry and deleteTimeEntry: the lookup with its checks, then   *)
(* the write, two steps each                                               *)
(***************************************************************************)
EditProcs == {"e1", "e2"}

\* bodies of PUT /time-entries/:id; Null and "absent": the field is not sent
EntryPatches ==
  {[startTime |-> Null, endTime |-> Null, billable |-> "false"],
   [startTime |-> Null, endTime |-> 9000000, billable |-> "absent"],
   [startTime |-> 7200000, endTime |-> Null, billable |-> "absent"],
   [startTime |-> 5000, endTime |-> 4000, billable |-> "absent"]}

IdleEdit == [pc |-> "idle", id |-> 0,
             patch |-> [startTime |-> Null, endTime |-> Null, billable |-> "absent"],
             duration |-> Null]

\* the call of edit slot p ends with a response
RespondEdit(p, code, name) ==
  /\ edit' = [edit EXCEPT ![p] = IdleEdit]
  /\ response' = code
  /\ handler' = name

\* prisma.timeEntry.findFirst({ where: { id, userId, deletedAt: null } })
EntryOf(id, u) ==
  /\ id \in 1..Len(timeEntries)
  /\ timeEntries[id].userId = u
  /\ ~timeEntries[id].deleted

\* updateTimeEntrySchema's refine
PatchValid(patch) ==
  ~(patch.startTime # Null /\ patch.endTime # Null /\ patch.endTime <= patch.startTime)

\* the duration updateTimeEntry recomputes when the body carries a start or an end
PatchDuration(patch, e) ==
  LET startTime == IF patch.startTime # Null THEN patch.startTime ELSE e.startTime
      endTime == IF patch.endTime # Null THEN patch.endTime ELSE e.endTime
  IN RoundSeconds(endTime - startTime)

PatchesTimes(patch) == patch.startTime # Null \/ patch.endTime # Null

\* a lookup that lets the update of a running entry through
updateTimeEntry_findRunningToo(p, u, id, patch) ==
  /\ edit[p].pc = "idle"
  /\ IF ~PatchValid(patch) \/ ~EntryOf(id, u)
       THEN RespondEdit(p, NotFound, "updateTimeEntry")
       ELSE /\ edit' = [edit EXCEPT ![p] =
                 [pc |-> "update", id |-> id, patch |-> patch, duration |-> Null]]
            /\ UNCHANGED <<response, handler>>
  /\ UNCHANGED <<crudVars, now, timeEntries, timer, invVars>>

updateTimeEntry_find(p, u, id, patch) ==
  /\ edit[p].pc = "idle"
  /\ IF ~PatchValid(patch)
       THEN RespondEdit(p, InvalidState, "updateTimeEntry")
       ELSE IF ~EntryOf(id, u)
         THEN RespondEdit(p, NotFound, "updateTimeEntry")
         ELSE IF timeEntries[id].endTime = Null
           THEN RespondEdit(p, InvalidState, "updateTimeEntry")
           ELSE IF PatchesTimes(patch) /\ PatchDuration(patch, timeEntries[id]) <= 0
             THEN RespondEdit(p, InvalidState, "updateTimeEntry")
             ELSE /\ edit' = [edit EXCEPT ![p] =
                       [pc |-> "update", id |-> id, patch |-> patch,
                        duration |-> IF PatchesTimes(patch)
                                       THEN PatchDuration(patch, timeEntries[id])
                                       ELSE Null]]
                  /\ UNCHANGED <<response, handler>>
  /\ UNCHANGED <<crudVars, now, timeEntries, timer, invVars>>

\* prisma.timeEntry.update({ where: { id }, data: updateData })
PatchedEntry(e, c) ==
  [e EXCEPT
     !.startTime = IF c.patch.startTime # Null THEN c.patch.startTime ELSE @,
     !.endTime = IF c.patch.endTime # Null THEN c.patch.endTime ELSE @,
     !.billable = IF c.patch.billable = "absent" THEN @ ELSE c.patch.billable = "true",
     !.duration = IF c.duration # Null THEN c.duration ELSE @]

updateTimeEntry_update(p) ==
  /\ edit[p].pc = "update"
  /\ timeEntries' = [timeEntries EXCEPT ![edit[p].id] = PatchedEntry(@, edit[p])]
  /\ RespondEdit(p, Ok, "updateTimeEntry")
  /\ UNCHANGED <<crudVars, now, timer, invVars>>

deleteTimeEntry_find(p, u, id) ==
  /\ edit[p].pc = "idle"
  /\ IF ~EntryOf(id, u)
       THEN RespondEdit(p, NotFound, "deleteTimeEntry")
       ELSE IF timeEntries[id].endTime = Null
         THEN RespondEdit(p, InvalidState, "deleteTimeEntry")
         ELSE /\ edit' = [edit EXCEPT ![p] = [IdleEdit EXCEPT !.pc = "delete", !.id = id]]
              /\ UNCHANGED <<response, handler>>
  /\ UNCHANGED <<crudVars, now, timeEntries, timer, invVars>>

\* prisma.timeEntry.update({ where: { id }, data: { deletedAt: new Date() } })
deleteTimeEntry_update(p) ==
  /\ edit[p].pc = "delete"
  /\ timeEntries' = [timeEntries EXCEPT ![edit[p].id].deleted = TRUE]
  /\ RespondEdit(p, Ok, "deleteTimeEntry")
  /\ UNCHANGED <<crudVars, now, timer, invVars>>

(***************************************************************************)
(* deleteTask and deleteProject: the lookup, the count of running entries, *)
(* then the transaction that sets deletedAt, three steps each. The         *)
(* positions deleteTask renumbers afterwards are not part of this state.   *)
(***************************************************************************)
RemoveProcs == {"d1"}
Projects == {"p1", "p2"}

IdleRemove == [pc |-> "idle", id |-> "none"]

\* the call of delete slot p ends with a response
RespondRemove(p, code, name) ==
  /\ remove' = [remove EXCEPT ![p] = IdleRemove]
  /\ response' = code
  /\ handler' = name

\* prisma.timeEntry.count({ where: { taskId, endTime: null, deletedAt: null } })
RunningOnTask(t) ==
  {i \in 1..Len(timeEntries) :
     /\ timeEntries[i].taskId = t
     /\ timeEntries[i].endTime = Null
     /\ ~timeEntries[i].deleted}

\* prisma.timeEntry.count({ where: { task: { projectId, deletedAt: null },
\*                                   endTime: null, deletedAt: null } })
RunningOnProject(proj) ==
  {i \in 1..Len(timeEntries) :
     /\ timeEntries[i].taskId \in Tasks
     /\ taskProject(timeEntries[i].taskId) = proj
     /\ timeEntries[i].taskId \notin deletedAt
     /\ timeEntries[i].endTime = Null
     /\ ~timeEntries[i].deleted}

deleteTask_find(p, u, t) ==
  /\ remove[p].pc = "idle"
  /\ IF ~TaskOpenFor(t, u)
       THEN RespondRemove(p, NotFound, "deleteTask")
       ELSE /\ remove' = [remove EXCEPT ![p] = [pc |-> "countTask", id |-> t]]
            /\ UNCHANGED <<response, handler>>
  /\ UNCHANGED <<now, timeEntries, timer, invVars, edit, deletedAt>>

deleteTask_count(p) ==
  /\ remove[p].pc = "countTask"
  /\ IF RunningOnTask(remove[p].id) # {}
       THEN RespondRemove(p, InvalidState, "deleteTask")
       ELSE /\ remove' = [remove EXCEPT ![p].pc = "deleteTask"]
            /\ UNCHANGED <<response, handler>>
  /\ UNCHANGED <<now, timeEntries, timer, invVars, edit, deletedAt>>

\* the transaction: tx.timeEntry.updateMany, then tx.task.update
deleteTask_delete(p) ==
  /\ remove[p].pc = "deleteTask"
  /\ timeEntries' =
       [i \in 1..Len(timeEntries) |->
          IF timeEntries[i].taskId = remove[p].id
            THEN [timeEntries[i] EXCEPT !.deleted = TRUE]
            ELSE timeEntries[i]]
  /\ deletedAt' = deletedAt \cup {remove[p].id}
  /\ RespondRemove(p, Ok, "deleteTask")
  /\ UNCHANGED <<now, timer, invVars, edit>>

deleteProject_find(p, u, proj) ==
  /\ remove[p].pc = "idle"
  /\ IF ~(proj \in Projects /\ proj \notin deletedAt /\ projectOwner(proj) = u)
       THEN RespondRemove(p, NotFound, "deleteProject")
       ELSE /\ remove' = [remove EXCEPT ![p] = [pc |-> "countProject", id |-> proj]]
            /\ UNCHANGED <<response, handler>>
  /\ UNCHANGED <<now, timeEntries, timer, invVars, edit, deletedAt>>

deleteProject_count(p) ==
  /\ remove[p].pc = "countProject"
  /\ IF RunningOnProject(remove[p].id) # {}
       THEN RespondRemove(p, InvalidState, "deleteProject")
       ELSE /\ remove' = [remove EXCEPT ![p].pc = "deleteProject"]
            /\ UNCHANGED <<response, handler>>
  /\ UNCHANGED <<now, timeEntries, timer, invVars, edit, deletedAt>>

\* the transaction: tx.task.updateMany, then tx.project.update
deleteProject_delete(p) ==
  /\ remove[p].pc = "deleteProject"
  /\ deletedAt' = deletedAt \cup {t \in Tasks : taskProject(t) = remove[p].id}
                             \cup {remove[p].id}
  /\ RespondRemove(p, Ok, "deleteProject")
  /\ UNCHANGED <<now, timeEntries, timer, invVars, edit>>

\* the calendar year turns
YearTurn ==
  /\ year + 1 \in Years
  /\ year' = year + 1
  /\ UNCHANGED <<crudVars, now, timeEntries, timer, response, handler, invoices, gen, consumed, numberUnique, edit>>

(***************************************************************************)
(* Specifications                                                          *)
(***************************************************************************)
\* the store after the test suite's reset, before any request
Init ==
  /\ now = 0
  /\ timeEntries = <<>>
  /\ timer = [p \in TimerProcs |-> IdleCall]
  /\ response = NoResponse
  /\ year = 2025
  /\ invoices = <<>>
  /\ gen = [p \in GenProcs |-> IdleGen]
  /\ consumed = {}
  /\ numberUnique = TRUE
  /\ handler = "none"
  /\ edit = [p \in EditProcs |-> IdleEdit]
  /\ deletedAt = {}
  /\ remove = [p \in RemoveProcs |-> IdleRemove]

TimerNext ==
  \/ Tick
  \/ ClockBack
  \/ \E p \in TimerProcs, u \in Workers, t \in TaskIds : startTimer_findActive(p, u, t)
  \/ \E p \in TimerProcs : startTimer_findTask(p)
  \/ \E p \in TimerProcs : startTimer_create(p)
  \/ \E p \in TimerProcs, u \in Workers : stopTimer_findActive(p, u)
  \/ \E p \in TimerProcs : stopTimer_update(p)

\* a store holding one approved, billable, completed entry of u1 on t1, as the
\* invoice tests seed it; the schema's uniqueness of Invoice.number is open
InitSeeded ==
  /\ now = 0
  /\ timeEntries =
       << [userId |-> "u1", taskId |-> "t1", startTime |-> 0, endTime |-> 7200000,
           duration |-> 7200, billable |-> TRUE, approved |-> TRUE, deleted |-> FALSE] >>
  /\ timer = [p \in TimerProcs |-> IdleCall]
  /\ response = NoResponse
  /\ year = 2025
  /\ invoices = <<>>
  /\ gen = [p \in GenProcs |-> IdleGen]
  /\ consumed = {}
  /\ numberUnique \in BOOLEAN
  /\ handler = "none"
  /\ edit = [p \in EditProcs |-> IdleEdit]
  /\ deletedAt = {}
  /\ remove = [p \in RemoveProcs |-> IdleRemove]

\* invoice numbering: concurrent generate calls, the manual path, the year
NumberingNext ==
  \/ \E p \in GenProcs, u \in {"u1"}, proj \in {"p1", "p2"}, range \in Ranges :
       generateFromProject_select(p, u, proj, range)
  \/ \E p \in GenProcs : generateFromProject_allocate(p)
  \/ \E p \in GenProcs : generateFromProject_createInvoice(p)
  \/ \E p \in GenProcs : generateFromProject_createItems(p)
  \/ \E p \in GenProcs : generateFromProject_commit(p)
  \/ \E p \in GenProcs : generateFromProject_abort(p)
  \/ \E n \in ManualNumbers, body \in ManualBodies :
       createInvoice("u1", n, "p1", "DRAFT", body)
  \/ YearTurn

\* billing: ledger entries, their approval, one generate at a time, the manual path
BillingNext ==
  \/ \E t \in Tasks, span \in EntrySpans : createTimeEntry("u1", t, span, TRUE)
  \/ \E i \in 1..MaxEntries : approveEntry(i)
  \/ \E range \in Ranges : generateFromProject_select("g1", "u1", "p1", range)
  \/ generateFromProject_allocate("g1")
  \/ generateFromProject_createInvoice("g1")
  \/ generateFromProject_createItems("g1")
  \/ generateFromProject_commit("g1")
  \/ \E body \in ManualBodies :
       createInvoice("u1", [year |-> 2025, seq |-> <<0, 0, 0, 3>>], "p1", "DRAFT", body)

\* lifecycle: invoices of both paths and the status updates on them
LifecycleNext ==
  \/ \E range \in Ranges : generateFromProject_select("g1", "u1", "p1", range)
  \/ generateFromProject_allocate("g1")
  \/ generateFromProject_createInvoice("g1")
  \/ generateFromProject_createItems("g1")
  \/ generateFromProject_commit("g1")
  \/ \E proj \in {"p1", NoProject}, status \in {"DRAFT", "SENT"} :
       createInvoice("u1", [year |-> 2025, seq |-> <<0, 0, 0, 3>>], proj, status,
                     CHOOSE body \in ManualBodies : body.total = 12500)
  \/ \E u \in Users, i \in 1..MaxInvoices, status \in InvoiceStatus :
       updateInvoiceStatus(u, i, status)
  \/ \E c \in Clients, i \in 1..MaxInvoices : markInvoiceAsPaid(c, i)

\* (startTime, endTime) of the manual requests of the ledger: two hours, an
\* empty span, and a span shorter than half a second
LedgerSpans == {<<0, 7200000>>, <<1000, 1000>>, <<0, 400>>}

\* the ledger: one timer session, manual entries, approval, edits and deletes
LedgerNext ==
  \/ startTimer_findActive("r1", "u1", "t1")
  \/ startTimer_findTask("r1")
  \/ startTimer_create("r1")
  \/ stopTimer_findActive("r1", "u1")
  \/ stopTimer_update("r1")
  \/ \E span \in LedgerSpans : createTimeEntry("u1", "t1", span, TRUE)
  \/ \E i \in 1..MaxEntries : approveEntry(i)
  \/ \E u \in Users, i \in 1..MaxEntries,
          patch \in {pt \in EntryPatches : pt.billable = "false" \/ ~PatchValid(pt)} :
       updateTimeEntry_find("e1", u, i, patch)
  \/ updateTimeEntry_update("e1")
  \/ \E u \in Users, i \in 1..MaxEntries : deleteTimeEntry_find("e1", u, i)
  \/ deleteTimeEntry_update("e1")

\* completed rows the ledger can hold: an eligible one on each task, and on
\* t1 one that is not billable, one not approved, one soft-deleted, one that
\* starts after the first two ranges
LedgerEntry(u, t, startTime, billable, approved, deleted) ==
  [userId |-> u, taskId |-> t, startTime |-> startTime, endTime |-> startTime + 7200000,
   duration |-> RoundSeconds(7200000), billable |-> billable, approved |-> approved,
   deleted |-> deleted]

EntryPool ==
  {LedgerEntry("u1", "t1", 0, TRUE, TRUE, FALSE),
   LedgerEntry("u1", "t2", 0, TRUE, TRUE, FALSE),
   LedgerEntry("u2", "t3", 0, TRUE, TRUE, FALSE),
   LedgerEntry("u1", "t1", 0, FALSE, TRUE, FALSE),
   LedgerEntry("u1", "t1", 0, TRUE, FALSE, FALSE),
   LedgerEntry("u1", "t1", 0, TRUE, TRUE, TRUE),
   LedgerEntry("u1", "t1", 40000000, TRUE, TRUE, FALSE)}

\* the store holds any ledger of up to MaxEntries completed rows
InitLedgers ==
  /\ now = 0
  /\ timeEntries \in UNION {[1..n -> EntryPool] : n \in 0..MaxEntries}
  /\ timer = [p \in TimerProcs |-> IdleCall]
  /\ response = NoResponse
  /\ year = 2025
  /\ invoices = <<>>
  /\ gen = [p \in GenProcs |-> IdleGen]
  /\ consumed = {}
  /\ numberUnique = TRUE
  /\ handler = "none"
  /\ edit = [p \in EditProcs |-> IdleEdit]
  /\ deletedAt = {}
  /\ remove = [p \in RemoveProcs |-> IdleRemove]

\* aggregation: generate calls of either user, one at a time, over a fixed ledger
AggregateNext ==
  \/ \E u \in Users, proj \in {"p1", "p2"}, range \in Ranges :
       generateFromProject_select("g1", u, proj, range)
  \/ generateFromProject_allocate("g1")
  \/ generateFromProject_createInvoice("g1")
  \/ generateFromProject_createItems("g1")
  \/ generateFromProject_commit("g1")
  \/ generateFromProject_abort("g1")

\* completed rows of 100 seconds: approved, billable entries of u1 on two tasks
\* of project p1 that carry different titles
ShortEntry(t) ==
  [userId |-> "u1", taskId |-> t, startTime |-> 0, endTime |-> 100000,
   duration |-> RoundSeconds(100000), billable |-> TRUE, approved |-> TRUE,
   deleted |-> FALSE]

\* the store holds any ledger of up to MaxEntries short rows
InitShortLedgers ==
  /\ now = 0
  /\ timeEntries \in UNION {[1..n -> {ShortEntry("t1"), ShortEntry("t4")}] : n \in 0..MaxEntries}
  /\ timer = [p \in TimerProcs |-> IdleCall]
  /\ response = NoResponse
  /\ year = 2025
  /\ invoices = <<>>
  /\ gen = [p \in GenProcs |-> IdleGen]
  /\ consumed = {}
  /\ numberUnique = TRUE
  /\ handler = "none"
  /\ edit = [p \in EditProcs |-> IdleEdit]
  /\ deletedAt = {}
  /\ remove = [p \in RemoveProcs |-> IdleRemove]

\* concurrent edits: manual entries, and two requests at a time that change
\* the start or the end of an entry or delete it
EditsNext ==
  \/ \E span \in EntrySpans : createTimeEntry("u1", "t1", span, TRUE)
  \/ \E p \in EditProcs, i \in 1..MaxEntries,
          patch \in {pt \in EntryPatches : PatchesTimes(pt)} :
       updateTimeEntry_find(p, "u1", i, patch)
  \/ \E p \in EditProcs : updateTimeEntry_update(p)
  \/ \E p \in EditProcs, i \in 1..MaxEntries : deleteTimeEntry_find(p, "u1", i)
  \/ \E p \in EditProcs : deleteTimeEntry_update(p)

\* reading: invoices of the manual path, the clock, and the two read paths
ReadingNext ==
  \/ Tick
  \/ \E n \in ManualNumbers, proj \in {"p1", NoProject}, status \in {"DRAFT", "SENT"} :
       createInvoice("u1", n, proj, status, CHOOSE body \in ManualBodies : body.total = 12500)
  \/ \E u \in Users, i \in 1..MaxInvoices : getInvoice(u, i)
  \/ \E u \in Users : getInvoices(u)

\* removal: one timer session on the tasks of p1, and the deletes of tasks
\* and projects by either user
RemovalNext ==
  \/ \E t \in {"t1", "t4"} : startTimer_findActive("r1", "u1", t)
  \/ startTimer_findTask("r1")
  \/ startTimer_create("r1")
  \/ stopTimer_findActive("r1", "u1")
  \/ stopTimer_update("r1")
  \/ \E u \in Users, t \in {"t1", "t4"} : deleteTask_find("d1", u, t)
  \/ deleteTask_count("d1")
  \/ deleteTask_delete("d1")
  \/ \E u \in Users, proj \in {"p1"} : deleteProject_find("d1", u, proj)
  \/ deleteProject_count("d1")
  \/ deleteProject_delete("d1")

Next == TimerNext \/ NumberingNext \/ BillingNext \/ LifecycleNext \/ LedgerNext \/ AggregateNext
          \/ EditsNext \/ ReadingNext \/ RemovalNext

Spec == Init /\ [][Next]_vars
SpecTimer == Init /\ [][TimerNext]_vars
SpecNumbering == InitSeeded /\ [][NumberingNext]_vars
SpecBilling == Init /\ [][BillingNext]_vars
SpecLifecycle == InitSeeded /\ [][LifecycleNext]_vars
SpecLedger == Init /\ [][LedgerNext]_vars
SpecAggregate == InitLedgers /\ [][AggregateNext]_vars
SpecRounding == InitShortLedgers /\ [][AggregateNext]_vars
SpecEdits == Init /\ [][EditsNext]_vars
SpecRemoval == Init /\ [][RemovalNext]_vars
\* the clock advances and reads keep arriving
SpecReading ==
  /\ Init /\ [][ReadingNext]_vars
  /\ WF_vars(Tick)
  /\ \A u \in Users : WF_vars(getInvoices(u))
  /\ \A u \in Users, i \in 1..MaxInvoices : WF_vars(getInvoice(u, i))

(***************************************************************************)
(* Properties of the timer subsystem                                       *)
(***************************************************************************)
RunningEntries(u) == ActiveTimers(u)

\* C1: at no instant do two TimeEntry rows of one worker both have
\* endTime = null, whatever the interleaving of concurrent start calls.
AtMostOneRunningTimer ==
  \A u \in Users : Cardinality(RunningEntries(u)) <= 1

\* C5: every entry that stop has ended carries duration = round((end - start)
\* in seconds), and that duration is greater than 0.
StopDurationRoundedPositive ==
  \A i \in 1..Len(timeEntries) :
     timeEntries[i].endTime # Null =>
       /\ timeEntries[i].duration =
            RoundSeconds(timeEntries[i].endTime - timeEntries[i].startTime)
       /\ timeEntries[i].duration > 0

\* C6: a stop whose clock reading is not after the entry's start answers 400
\* (InvalidStateError) and leaves the entry running with duration 0.
StopRejectsNonPositiveDuration ==
  [][\A p \in TimerProcs :
       (stopTimer_update(p) /\ now <= timer[p].start) =>
         /\ response' = InvalidState
         /\ timeEntries'[timer[p].entry].endTime = Null
         /\ timeEntries'[timer[p].entry].duration = 0]_vars

\* C10: a start call made while the worker has a running entry is answered
\* 409 (ConflictError), ends there, and leaves the TimeEntry table as it was.
StartWhileRunningConflicts ==
  [][\A p \in TimerProcs, u \in Workers, t \in TaskIds :
       (startTimer_findActive(p, u, t) /\ RunningEntries(u) # {}) =>
         /\ response' = Conflict
         /\ timer'[p].pc = "idle"
         /\ timeEntries' = timeEntries]_vars

\* a start was just refused while the worker's entry is running
StartConflictSeen ==
  /\ response = Conflict
  /\ \E u \in Workers : RunningEntries(u) # {}

\* C11: a stop call of a worker who has no running entry is answered 404
\* (NotFoundError), ends there, and leaves every TimeEntry row as it was.
StopWithoutTimerNotFound ==
  [][\A p \in TimerProcs, u \in Workers :
       (stopTimer_findActive(p, u) /\ RunningEntries(u) = {}) =>
         /\ response' = NotFound
         /\ timer'[p].pc = "idle"
         /\ timeEntries' = timeEntries]_vars

\* a stop was just refused with 404 while the worker has no running entry
StopNotFoundSeen ==
  /\ handler = "stopTimer"
  /\ response = NotFound
  /\ \E u \in Workers : RunningEntries(u) = {}

\* C20 as stated: every answer to a start call that names no task of the
\* worker is 404 (NotFoundError), and the call creates no TimeEntry.
StartUnknownTaskAlwaysNotFound ==
  [][/\ \A p \in TimerProcs, u \in Workers, t \in TaskIds :
          (startTimer_findActive(p, u, t) /\ ~TaskOfOwner(t, u)) =>
            /\ timeEntries' = timeEntries
            /\ timer'[p].pc = "idle" => response' = NotFound
     /\ \A p \in TimerProcs :
          (startTimer_findTask(p) /\ ~TaskOfOwner(timer[p].taskId, timer[p].userId)) =>
            /\ response' = NotFound
            /\ timer'[p].pc = "idle"
            /\ timeEntries' = timeEntries]_vars

\* C20, amended: a start call that names no task of the worker creates no
\* TimeEntry; it is answered 409 when the worker has a running entry at the
\* first lookup, and 404 (NotFoundError) at the task lookup otherwise.
StartUnknownTaskRejected ==
  [][/\ \A p \in TimerProcs, u \in Workers, t \in TaskIds :
          (startTimer_findActive(p, u, t) /\ ~TaskOfOwner(t, u)) =>
            /\ timeEntries' = timeEntries
            /\ timer'[p].pc = "idle" => (response' = Conflict /\ RunningEntries(u) # {})
            /\ timer'[p].pc # "idle" => (timer'[p].pc = "findTask" /\ RunningEntries(u) = {})
     /\ \A p \in TimerProcs :
          (startTimer_findTask(p) /\ ~TaskOfOwner(timer[p].taskId, timer[p].userId)) =>
            /\ response' = NotFound
            /\ timer'[p].pc = "idle"
            /\ timeEntries' = timeEntries
     /\ \A p \in TimerProcs :
          startTimer_create(p) => TaskOfOwner(timer[p].taskId, timer[p].userId)]_vars

\* a start naming no task of the worker was just refused with 404, nothing stored
StartNotFoundSeen ==
  /\ handler = "startTimer"
  /\ response = NotFound
  /\ timeEntries = <<>>

(***************************************************************************)
(* Properties of the time-entry ledger                                     *)
(***************************************************************************)
\* C14: an update or delete request for an approved entry is refused, and no
\* update or delete writes to an approved entry.
ApprovedEntryLocked ==
  [][/\ \A p \in EditProcs, u \in Users, i \in 1..Len(timeEntries), patch \in EntryPatches :
          (EntryOf(i, u) /\ timeEntries[i].approved /\ updateTimeEntry_find(p, u, i, patch)) =>
            (edit'[p].pc = "idle" /\ response' # Ok)
     /\ \A p \in EditProcs, u \in Users, i \in 1..Len(timeEntries) :
          (EntryOf(i, u) /\ timeEntries[i].approved /\ deleteTimeEntry_find(p, u, i)) =>
            (edit'[p].pc = "idle" /\ response' # Ok)
     /\ \A p \in EditProcs :
          (/\ edit[p].pc # "idle"
           /\ timeEntries[edit[p].id].approved
           /\ updateTimeEntry_update(p) \/ deleteTimeEntry_update(p)) =>
            timeEntries' = timeEntries]_vars

\* C15: an update or delete request for a running entry (endTime = null) is
\* answered 400 and leaves the table as it was, and among the handlers of the
\* timer and of the time entries only stopTimer's write changes a running entry.
RunningEntryLocked ==
  [][/\ \A p \in EditProcs, u \in Users, i \in 1..Len(timeEntries), patch \in EntryPatches :
          (EntryOf(i, u) /\ timeEntries[i].endTime = Null /\ PatchValid(patch)
             /\ updateTimeEntry_find(p, u, i, patch)) =>
            (response' = InvalidState /\ edit'[p].pc = "idle" /\ timeEntries' = timeEntries)
     /\ \A p \in EditProcs, u \in Users, i \in 1..Len(timeEntries) :
          (EntryOf(i, u) /\ timeEntries[i].endTime = Null /\ deleteTimeEntry_find(p, u, i)) =>
            (response' = InvalidState /\ edit'[p].pc = "idle" /\ timeEntries' = timeEntries)
     /\ \A i \in 1..Len(timeEntries) :
          (timeEntries[i].endTime = Null /\ timeEntries'[i] # timeEntries[i]) =>
            \E p \in TimerProcs : stopTimer_update(p) /\ timer[p].entry = i]_vars

\* the delete of a running entry was just refused, and the entry is still running
RunningDeleteRefused ==
  /\ handler = "deleteTimeEntry"
  /\ response = InvalidState
  /\ \E i \in 1..Len(timeEntries) :
        /\ timeEntries[i].endTime = Null
        /\ timeEntries[i].duration = 0
        /\ ~timeEntries[i].deleted

(***************************************************************************)
(* Properties of the invoice subsystem                                     *)
(***************************************************************************)
\* the transition table of the invoice lifecycle
AllowedTransitions ==
  {<<"DRAFT", "SENT">>, <<"SENT", "PAID">>, <<"SENT", "OVERDUE">>, <<"OVERDUE", "PAID">>}

\* the largest sequence number among the stored numbers of year y, 0 if none
MaxSeqNumber(y) ==
  IF YearSeqs(y) = {} THEN 0
  ELSE ParseInt(CHOOSE s \in YearSeqs(y) : \A s2 \in YearSeqs(y) : ParseInt(s2) <= ParseInt(s))

\* an amount in cents, rounded half up to 2 decimals
Round2(x) == (x + (Cent \div 2)) \div Cent

GeneratedRows == {i \in 1..Len(invoices) : invoices[i].origin = "generate"}

\* C2: generate calls in flight at the same time hold pairwise distinct
\* numbers, each of them commits its invoice, and the committed generated
\* invoices carry pairwise distinct numbers.
ConcurrentGenerateDistinct ==
  /\ \A p, q \in GenProcs :
        (p # q /\ InTransactionWrites(p) /\ InTransactionWrites(q)) =>
          gen[p].number # gen[q].number
  /\ \A i, j \in GeneratedRows : i # j => invoices[i].number # invoices[j].number

\* C3: a status only changes along the table DRAFT:[SENT], SENT:[PAID, OVERDUE],
\* OVERDUE:[PAID], PAID:[]; updateInvoiceStatus with any other pair (from = to
\* included) answers 400 and leaves the invoices as they were.
StatusFollowsTable ==
  [][/\ \A i \in 1..Len(invoices) :
          invoices'[i].status # invoices[i].status =>
            <<invoices[i].status, invoices'[i].status>> \in AllowedTransitions
     /\ \A u \in Users, i \in 1..Len(invoices), status \in InvoiceStatus :
          (/\ updateInvoiceStatus(u, i, status)
           /\ InvoiceVisibleTo(u, i)
           /\ <<invoices[i].status, status>> \notin AllowedTransitions) =>
            (response' = InvalidState /\ invoices' = invoices)]_vars

\* C4: every stored invoice has total = subtotal + tax, tax = subtotal * 0.25
\* and subtotal = sum of its items' amounts, each to 2 decimals.
TotalsConsistent ==
  \A i \in 1..Len(invoices) :
     /\ Round2(invoices[i].total) = Round2(invoices[i].subtotal + invoices[i].tax)
     /\ Round2(invoices[i].tax) = Round2(TaxOf(invoices[i].subtotal))
     /\ Round2(invoices[i].subtotal) = Round2(SumAmounts(invoices[i].items))

\* C7: a line generate emits for time entries has quantity = summed seconds
\* / 3600 hours and amount = quantity * hourly rate.
TimeLinesInHours ==
  \A i \in GeneratedRows :
     \A n \in 1..Len(invoices[i].items) :
        invoices[i].items[n].seconds > 0 =>
          /\ invoices[i].items[n].qty60 * 60 = invoices[i].items[n].seconds
          /\ invoices[i].items[n].amount * 60 =
               invoices[i].items[n].qty60 * invoices[i].items[n].rate

\* C8: a number handed to a generate call is never handed out again, also
\* when that call's invoice creation failed afterwards.
AllocatorNeverReissues ==
  [][\A p \in GenProcs :
       (generateFromProject_allocate(p) /\ \A q \in GenProcs \ {p} : gen[q].pc = "idle") =>
         gen'[p].number \notin consumed]_vars

\* C9: without contention generate obtains <year>-<max stored sequence of the
\* year + 1, zero-padded to 4 digits>, <year>-0001 when the year has none.
NextNumberIsMaxPlusOne ==
  [][\A p \in GenProcs :
       (generateFromProject_allocate(p) /\ \A q \in GenProcs \ {p} : gen[q].pc = "idle") =>
         gen'[p].number =
           [year |-> year, seq |-> PadStart(ToDigits(MaxSeqNumber(year) + 1), PadWidth)]]_vars

\* C12: a generate call of the project's owner that finds no eligible time
\* entry and no billable expense in the range is answered 400, ends there,
\* stores no invoice and no item, and takes no invoice number.
EmptyGenerateRejected ==
  [][\A p \in GenProcs, u \in Users, proj \in {"p1", "p2"}, range \in Ranges :
       (/\ projectOwner(proj) = u
        /\ EligibleEntries(u, proj, range) = {}
        /\ EligibleExpenses(u, proj, range) = {}
        /\ generateFromProject_select(p, u, proj, range)) =>
         /\ response' = InvalidState
         /\ gen'[p].pc = "idle"
         /\ invoices' = invoices
         /\ consumed' = consumed
         /\ timeEntries' = timeEntries]_vars

\* a generate call was just refused with 400 although the ledger holds an
\* entry of the project: nothing stored, no number taken
EmptyGenerateSeen ==
  /\ handler = "generateFromProject"
  /\ response = InvalidState
  /\ invoices = <<>>
  /\ consumed = {}
  /\ \E i \in 1..Len(timeEntries) : timeEntries[i].taskId = "t1" /\ ~timeEntries[i].approved

\* the entries C16 names: billable, approved, not soft-deleted, on a task of
\* the project, started within the range
BillableSet(proj, range) ==
  {i \in 1..Len(timeEntries) :
     /\ timeEntries[i].billable
     /\ timeEntries[i].approved
     /\ ~timeEntries[i].deleted
     /\ timeEntries[i].taskId \in Tasks
     /\ taskProject(timeEntries[i].taskId) = proj
     /\ range[1] <= timeEntries[i].startTime
     /\ timeEntries[i].startTime <= range[2]}

\* the entries the lines of an invoice were computed from
BilledEntries(items) == UNION {items[n].entries : n \in 1..Len(items)}

RECURSIVE SumSeconds(_)
SumSeconds(items) == IF items = <<>> THEN 0 ELSE items[1].seconds + SumSeconds(Tail(items))

CompleteInvoice(inv) ==
  /\ inv.items # <<>>
  /\ SumAmounts(inv.items) # 0 => (inv.subtotal # 0 /\ inv.total # 0)

\* C17: every state of the committed store shows a generated invoice either
\* not at all or with its items and its totals, and a visible invoice's items
\* and totals never change afterwards.
GenerateAllOrNothing ==
  [][\A i \in 1..Len(invoices') :
       /\ invoices'[i].origin = "generate" => CompleteInvoice(invoices'[i])
       /\ i <= Len(invoices) =>
            /\ invoices'[i].items = invoices[i].items
            /\ invoices'[i].subtotal = invoices[i].subtotal
            /\ invoices'[i].tax = invoices[i].tax
            /\ invoices'[i].total = invoices[i].total]_vars

\* a transaction holds its invoice row and items, the totals still the
\* placeholders, and the committed store shows no row of that number
UncommittedWritesHidden ==
  /\ gen["g1"].pc = "totals"
  /\ gen["g1"].tx[1].items # <<>>
  /\ gen["g1"].tx[1].total = 0
  /\ invoices # <<>>
  /\ \A i \in 1..Len(invoices) : invoices[i].number # gen["g1"].number

\* C19: every line a generate call computes from time entries comes from the
\* entries of one task, also when two tasks of the project have the same title.
OneLinePerTask ==
  [][(gen["g1"].pc = "idle" /\ gen'["g1"].pc = "allocate") =>
       \A n \in 1..Len(gen'["g1"].items) :
          \A i, j \in gen'["g1"].items[n].entries :
             timeEntries[i].taskId = timeEntries[j].taskId]_vars

\* C13: no step takes an invoice out of PAID, and no step puts an invoice
\* that has left DRAFT back into DRAFT.
PaidIsFinalDraftIsInitial ==
  [][\A i \in 1..Len(invoices) :
       /\ invoices[i].status = "PAID" => invoices'[i].status = "PAID"
       /\ invoices[i].status # "DRAFT" => invoices'[i].status # "DRAFT"]_vars

\* C18: a request to set a PAID invoice to SENT is answered 400 and changes
\* nothing, and no step changes a field other than the status of a PAID invoice.
PaidInvoiceImmutable ==
  [][/\ \A u \in Users, i \in 1..Len(invoices) :
          (/\ InvoiceVisibleTo(u, i)
           /\ invoices[i].status = "PAID"
           /\ updateInvoiceStatus(u, i, "SENT")) =>
            (response' = InvalidState /\ invoices' = invoices)
     /\ \A i \in 1..Len(invoices) :
          invoices[i].status = "PAID" =>
            [invoices'[i] EXCEPT !.status = "PAID"] = invoices[i]]_vars

NumbersAreFourDigits ==
  /\ \A i \in 1..Len(invoices) : Len(invoices[i].number.seq) = PadWidth
  /\ \A p \in GenProcs : InTransactionWrites(p) => Len(gen[p].number.seq) = PadWidth

\* C27: a stop call writes end and duration only to an entry that is still
\* running; on an entry another stop call has ended meanwhile it answers 404
\* and leaves the entry as it is.
StopWritesOnce ==
  [][\A p \in TimerProcs :
       (/\ timer[p].pc = "update"
        /\ timeEntries[timer[p].entry].endTime # Null
        /\ stopTimer_update(p)) =>
         (response' = NotFound /\ timeEntries' = timeEntries)]_vars

\* C28: no time entry is billed by two generated invoices, nor by two lines
\* of one invoice.
EntryBilledOnce ==
  /\ \A k1, k2 \in GeneratedRows :
        k1 # k2 => BilledEntries(invoices[k1].items) \cap BilledEntries(invoices[k2].items) = {}
  /\ \A k \in GeneratedRows : \A n1, n2 \in 1..Len(invoices[k].items) :
        n1 # n2 => invoices[k].items[n1].entries \cap invoices[k].items[n2].entries = {}

\* C30: an updateInvoiceStatus call of a user who is not the invoice's owner
\* answers 404 and leaves the invoice as it is, also for an invoice without
\* a project.
StatusUpdateOwnerOnly ==
  [][\A u \in Users, i \in 1..Len(invoices), status \in InvoiceStatus :
       (invoices[i].userId # u /\ updateInvoiceStatus(u, i, status)) =>
         (response' = NotFound /\ invoices' = invoices)]_vars

\* C23: a manual request that carries no total stores an invoice whose total
\* is subtotal + tax - discount, with subtotal the sum of the line amounts
\* and tax = subtotal * 0.25 as on the generate path.
ManualTotalComputed ==
  [][\A body \in ManualBodies :
       (/\ body.total = Null
        /\ ~NumberTaken([year |-> 2025, seq |-> <<0, 0, 0, 3>>])
        /\ createInvoice("u1", [year |-> 2025, seq |-> <<0, 0, 0, 3>>], "p1", "DRAFT", body)) =>
         /\ Len(invoices') = Len(invoices) + 1
         /\ LET inv == invoices'[Len(invoices')]
            IN /\ inv.total = inv.subtotal + inv.tax - body.discount * Cent
               /\ inv.subtotal = SumAmounts(inv.items)
               /\ inv.tax = TaxOf(inv.subtotal)]_vars

RECURSIVE RoundedSum(_)
\* the sum of the lines' amounts, each rounded to 2 decimals first
RoundedSum(items) ==
  IF items = <<>> THEN 0 ELSE Round2(items[1].amount) + RoundedSum(Tail(items))

\* C22: in a generated invoice each line amount is rounded to 2 decimals
\* before it is added, so the subtotal to 2 decimals is the sum of the line
\* amounts to 2 decimals.
LinesRoundedBeforeSum ==
  \A i \in GeneratedRows :
     Round2(invoices[i].subtotal) = RoundedSum(invoices[i].items)

\* C26: a time entry without an end has duration 0, and a time entry with an
\* end has end > start and duration = round(end - start) in seconds > 0,
\* whatever starts, stops, manual creates, updates and deletes came before.
DurationMatchesSpan ==
  \A i \in 1..Len(timeEntries) :
     IF timeEntries[i].endTime = Null
       THEN timeEntries[i].duration = 0
       ELSE /\ timeEntries[i].endTime > timeEntries[i].startTime
            /\ timeEntries[i].duration =
                 RoundSeconds(timeEntries[i].endTime - timeEntries[i].startTime)
            /\ timeEntries[i].duration > 0

\* C24: a SENT invoice whose due date has passed is eventually OVERDUE, with
\* the clock advancing and the read paths called, and no status update issued.
OverdueEventuallyPromoted ==
  \A i \in 1..MaxInvoices :
     (/\ i <= Len(invoices)
      /\ invoices[i].status = "SENT"
      /\ now > invoices[i].dueDate) ~>
       (i <= Len(invoices) /\ invoices[i].status = "OVERDUE")

\* C29: no time entry without an end belongs to a soft-deleted task or to a
\* task of a soft-deleted project, however starts and deletes interleave.
NoRunningEntryOnDeleted ==
  \A i \in 1..Len(timeEntries) :
     timeEntries[i].endTime = Null =>
       /\ timeEntries[i].taskId \notin deletedAt
       /\ taskProject(timeEntries[i].taskId) \notin deletedAt
====
